---- MODULE Spec2Model ----
(***************************************************************************)
(* Model of backend/scripts/pdf_to_h5.py: run_pipeline and main.           *)
(*                                                                         *)
(* Python floats are modelled as exact rationals [n, d] (d > 0, lowest     *)
(* terms).  An optional dictionary entry (dict.get) is a sequence of       *)
(* length 0 (absent / None) or 1 (present).  Strings that the code         *)
(* inspects character by character (span text, OCR confidence, page        *)
(* number formatting, the HTML title) are sequences of one-character       *)
(* strings.                                                                *)
(***************************************************************************)
EXTENDS Integers, Sequences, FiniteSets, TLC

\* ------------------------------------------------------------------------
\* Bounds of the model
\* ------------------------------------------------------------------------
MaxPages == 2
MaxSpans == 2
MaxBlocks == 2
MaxFrags == 2
MaxCoord == 1
MaxOcrSize == 2

\* ------------------------------------------------------------------------
\* Line 215
\* ------------------------------------------------------------------------
zoom == 2

\* ------------------------------------------------------------------------
\* Optional values
\* ------------------------------------------------------------------------
None == << >>
Some(v) == << v >>
IsNone(o) == Len(o) = 0

\* ------------------------------------------------------------------------
\* float arithmetic
\* ------------------------------------------------------------------------
Abs(n) == IF n < 0 THEN 0 - n ELSE n

RECURSIVE GCD(_, _)
GCD(a, b) == IF b = 0 THEN a ELSE GCD(b, a % b)

Norm(n, d) ==
    LET s == IF d < 0 THEN 0 - 1 ELSE 1
        g == GCD(Abs(n), Abs(d))
    IN  [n |-> (s * n) \div g, d |-> (s * d) \div g]

Float(i) == [n |-> i, d |-> 1]
FMul(a, b) == Norm(a.n * b.n, a.d * b.d)
FDiv(a, b) == Norm(a.n * b.d, a.d * b.n)
FSub(a, b) == Norm(a.n * b.d - b.n * a.d, a.d * b.d)
FLess(a, b) == a.n * b.d < b.n * a.d
\* Python max(0.0, v): the first argument unless the second is greater.
FMax0(v) == IF FLess(Float(0), v) THEN v ELSE Float(0)

\* ------------------------------------------------------------------------
\* str.strip
\* ------------------------------------------------------------------------
IsSpace(c) == c \in {" ", "\t", "\n"}

RECURSIVE LStrip(_)
LStrip(s) == IF Len(s) > 0 /\ IsSpace(Head(s)) THEN LStrip(Tail(s)) ELSE s

RECURSIVE RStrip(_)
RStrip(s) ==
    IF Len(s) > 0 /\ IsSpace(s[Len(s)])
    THEN RStrip(SubSeq(s, 1, Len(s) - 1))
    ELSE s

Strip(s) == RStrip(LStrip(s))

\* ------------------------------------------------------------------------
\* float(str) on the confidence spellings of the OCR engine's table output:
\* an optional sign, decimal digits and at most one decimal point; anything
\* else raises ValueError (None).
\* ------------------------------------------------------------------------
DigitVal(c) ==
    CASE c = "0" -> 0 [] c = "1" -> 1 [] c = "2" -> 2 [] c = "3" -> 3
      [] c = "4" -> 4 [] c = "5" -> 5 [] c = "6" -> 6 [] c = "7" -> 7
      [] c = "8" -> 8 [] c = "9" -> 9 [] OTHER -> 0 - 1

\* Digits with at most one decimal point, at least one digit: the value as
\* [n, k] meaning n / 10^k, or None.
RECURSIVE ParseDigits(_, _, _, _, _)
ParseDigits(s, acc, scale, dot, digits) ==
    IF Len(s) = 0 THEN (IF digits > 0 THEN Some(Norm(acc, scale)) ELSE None)
    ELSE IF Head(s) = "." THEN
        (IF dot THEN None ELSE ParseDigits(Tail(s), acc, scale, TRUE, digits))
    ELSE IF DigitVal(Head(s)) < 0 THEN None
    ELSE ParseDigits(Tail(s), acc * 10 + DigitVal(Head(s)),
                     IF dot THEN scale * 10 ELSE scale, dot, digits + 1)

ParseFloat(s) ==
    LET t == Strip(s)
        neg == Len(t) > 0 /\ Head(t) = "-"
        body == IF Len(t) > 0 /\ Head(t) \in {"-", "+"} THEN Tail(t) ELSE t
        r == ParseDigits(body, 0, 1, FALSE, 0)
    IN  IF IsNone(r) THEN None
        ELSE Some(IF neg THEN Norm(0 - r[1].n, r[1].d) ELSE r[1])

\* ------------------------------------------------------------------------
\* bbox_to_dict
\* ------------------------------------------------------------------------
\* bbox_to_dict without the clamp at zero
bbox_to_dict_unclamped(x0, y0, x1, y1) ==
    [x |-> x0, y |-> y0, w |-> FSub(x1, x0), h |-> FSub(y1, y0)]

bbox_to_dict(x0, y0, x1, y1) ==
    [x |-> x0, y |-> y0, w |-> FMax0(FSub(x1, x0)), h |-> FMax0(FSub(y1, y0))]

\* ------------------------------------------------------------------------
\* The content tree of a page: page.get_text("dict")
\*   block : [type, lines, bbox]   lines: sequence of lines, a line being
\*                                 the sequence of its spans
\*   span  : [text, bbox, size, font], each entry optional
\* ------------------------------------------------------------------------
RECURSIVE Concat(_)
Concat(ss) == IF Len(ss) = 0 THEN << >> ELSE Head(ss) \o Concat(Tail(ss))

\* SpanText without strip()
SpanText_unstripped(span) == IF IsNone(span.text) THEN << >> ELSE span.text[1]

\* (span.get("text") or "").strip()
SpanText(span) == Strip(IF IsNone(span.text) THEN << >> ELSE span.text[1])
\* SpanBbox without the default
SpanBbox_nodefault(span) == IF IsNone(span.bbox) THEN << >> ELSE span.bbox[1]

\* span.get("bbox") or [0, 0, 0, 0]
SpanBbox(span) ==
    IF IsNone(span.bbox) \/ Len(span.bbox[1]) = 0
    THEN <<0, 0, 0, 0>>
    ELSE span.bbox[1]
\* float(span.get("size") or 0.0)
SpanSize(span) ==
    IF IsNone(span.size) \/ span.size[1] = 0 THEN Float(0) ELSE Float(span.size[1])
\* str(span.get("font") or "")
SpanFont(span) == IF IsNone(span.font) THEN "" ELSE span.font[1]

\* The spans visited by the loops of lines 233-237, in visiting order.
VisitedSpans(blocks) ==
    Concat([b \in 1..Len(blocks) |->
              IF blocks[b].type # 0 THEN << >> ELSE Concat(blocks[b].lines)])

\* Lines 238-243: the two `continue` tests.
SpanSkipped(span) ==
    \/ Len(SpanText(span)) = 0
    \/ Len(SpanBbox(span)) # 4

\* PdfItem with the bbox multiplied by the zoom factor
PdfItem_scaled(span) ==
    LET bbox == SpanBbox(span)
    IN  [text |-> SpanText(span),
         bbox |-> <<Float(bbox[1] * zoom), Float(bbox[2] * zoom),
                    Float(bbox[3] * zoom), Float(bbox[4] * zoom)>>,
         size |-> SpanSize(span),
         font |-> SpanFont(span)]

PdfItem(span) ==
    LET bbox == SpanBbox(span)
    IN  [text |-> SpanText(span),
         bbox |-> <<Float(bbox[1]), Float(bbox[2]), Float(bbox[3]), Float(bbox[4])>>,
         size |-> SpanSize(span),
         font |-> SpanFont(span)]

ScaledBox(bbox, sx, sy) ==
    bbox_to_dict(FMul(Float(bbox[1]), sx), FMul(Float(bbox[2]), sy),
                 FMul(Float(bbox[3]), sx), FMul(Float(bbox[4]), sy))

RenderItem(span, sx, sy) ==
    LET d == ScaledBox(SpanBbox(span), sx, sy)
    IN  [x |-> d.x, y |-> d.y, w |-> d.w, h |-> d.h,
         text |-> SpanText(span),
         size |-> SpanSize(span),
         font |-> SpanFont(span)]

RECURSIVE SpanItemsPdf(_)
SpanItemsPdf(spans) ==
    IF Len(spans) = 0 THEN << >>
    ELSE IF SpanSkipped(Head(spans)) THEN SpanItemsPdf(Tail(spans))
    ELSE <<PdfItem(Head(spans))>> \o SpanItemsPdf(Tail(spans))

RECURSIVE SpanItemsRender(_, _, _)
SpanItemsRender(spans, sx, sy) ==
    IF Len(spans) = 0 THEN << >>
    ELSE IF SpanSkipped(Head(spans)) THEN SpanItemsRender(Tail(spans), sx, sy)
    ELSE <<RenderItem(Head(spans), sx, sy)>> \o SpanItemsRender(Tail(spans), sx, sy)

\* Lines 262-266: the two `continue` tests of the image-block loop.
ImageSkipped(block) ==
    \/ block.type # 1
    \/ IsNone(block.bbox)
    \/ Len(block.bbox[1]) = 0
    \/ Len(block.bbox[1]) # 4

RECURSIVE ImageBoxes(_, _, _)
ImageBoxes(blocks, sx, sy) ==
    IF Len(blocks) = 0 THEN << >>
    ELSE IF ImageSkipped(Head(blocks)) THEN ImageBoxes(Tail(blocks), sx, sy)
    ELSE <<ScaledBox(Head(blocks).bbox[1], sx, sy)>> \o ImageBoxes(Tail(blocks), sx, sy)

\* ------------------------------------------------------------------------
\* OCR fragments: pytesseract.image_to_data(..., output_type=Output.DICT),
\* one record per row j of the column dictionary.
\* ------------------------------------------------------------------------
\* Lines 277-281
OcrConf(frag) ==
    LET r == ParseFloat(Strip(frag.conf))
    IN  IF IsNone(r) THEN Float(0 - 1) ELSE r[1]

\* OcrSkipped with < in place of <=
OcrSkipped_strict(frag) ==
    \/ FLess(OcrConf(frag), Float(0))
    \/ FLess(Float(frag.width), Float(1))
    \/ FLess(Float(frag.height), Float(1))

\* Lines 282-289
OcrSkipped(frag) ==
    \/ FLess(OcrConf(frag), Float(0))
    \/ ~ FLess(Float(1), Float(frag.width))
    \/ ~ FLess(Float(1), Float(frag.height))

OcrBox(frag) ==
    [x |-> Float(frag.left), y |-> Float(frag.top),
     w |-> Float(frag.width), h |-> Float(frag.height),
     conf |-> OcrConf(frag)]

RECURSIVE OcrBoxes(_)
OcrBoxes(frags) ==
    IF Len(frags) = 0 THEN << >>
    ELSE IF OcrSkipped(Head(frags)) THEN OcrBoxes(Tail(frags))
    ELSE <<OcrBox(Head(frags))>> \o OcrBoxes(Tail(frags))

\* ------------------------------------------------------------------------
\* Formatting
\* ------------------------------------------------------------------------
DigitChar(d) == <<"0", "1", "2", "3", "4", "5", "6", "7", "8", "9">>[d + 1]

RECURSIVE Digits(_)
Digits(n) ==
    IF n < 10 THEN <<DigitChar(n)>>
    ELSE Digits(n \div 10) \o <<DigitChar(n % 10)>>

\* format spec 03d: zero-padded on the left to a width of at least 3
RECURSIVE ZeroPad3(_)
ZeroPad3(ds) == IF Len(ds) >= 3 THEN ds ELSE ZeroPad3(<<"0">> \o ds)

\* ImageName without the 03 of the format spec
ImageName_unpadded(page_no) == <<"assets/page_">> \o Digits(page_no) \o <<".png">>

\* f"assets/page_{page_no:03d}.png"
ImageName(page_no) == <<"assets/page_">> \o ZeroPad3(Digits(page_no)) \o <<".png">>

\* image_name.replace("\\\\", "/")
ReplaceBackslashes(name) ==
    [k \in 1..Len(name) |-> IF name[k] = "\\\\" THEN "/" ELSE name[k]]

\* html.escape(title)
EscapeChar(c) ==
    CASE c = "&" -> "&amp;"
      [] c = "<" -> "&lt;"
      [] c = ">" -> "&gt;"
      [] c = "\"" -> "&quot;"
      [] c = "'" -> "&#x27;"
      [] OTHER -> c

HtmlEscape(title) == [k \in 1..Len(title) |-> EscapeChar(title[k])]

\* ------------------------------------------------------------------------
\* The rendering engine: page.get_pixmap(matrix=Matrix(zoom, zoom)).
\* The bitmap has the page size times the zoom, off by the engine's
\* rounding (dw, dh); it is identified by the fragments the OCR engine
\* recognises in it.
\* ------------------------------------------------------------------------
GetPixmapOf(page) ==
    [width |-> zoom * page.w + page.dw,
     height |-> zoom * page.h + page.dh,
     frags |-> page.ocr]

\* Lines 225-228
ScaleX(page, pixmap) ==
    IF page.w # 0 THEN FDiv(Float(pixmap.width), Float(page.w)) ELSE Float(1)
ScaleY(page, pixmap) ==
    IF page.h # 0 THEN FDiv(Float(pixmap.height), Float(page.h)) ELSE Float(1)

\* ------------------------------------------------------------------------
\* Input documents
\* ------------------------------------------------------------------------
Coords == 0..MaxCoord

BboxVals ==
    {None, Some(<< >>), Some(<<1, 2, 3>>), Some(<<1, 2, 3, 4, 5>>),
     Some(<<4, 6, 1, 2>>), Some(<<1, 6, 4, 2>>)}
    \cup {Some(<<a, b, c, d>>) : a \in Coords, b \in Coords, c \in Coords, d \in Coords}

TextVals ==
    {None, Some(<< >>), Some(<<" ">>), Some(<<" ", "\t">>), Some(<<"b">>),
     Some(<<" ", "b">>), Some(<<"b", "\n">>), Some(<<" ", "b", " ", "c", " ">>)}

BaseSpan(p) ==
    [text |-> Some(<<"a">>), bbox |-> Some(<<1, 2, 4, 6>>),
     size |-> Some(p), font |-> Some("F")]

SpanVals ==
    {[BaseSpan(9) EXCEPT !.text = t] : t \in TextVals}
    \cup {[BaseSpan(9) EXCEPT !.bbox = b] : b \in BboxVals}
    \cup {[BaseSpan(9) EXCEPT !.size = z, !.font = f] :
            z \in {None, Some(0), Some(12)}, f \in {None, Some(""), Some("G")}}

\* Span lists in which one span is any of SpanVals and the others are well
\* formed and pairwise different.
SpanSeqs ==
    UNION {UNION {{[q \in 1..L |-> IF q = p THEN v ELSE BaseSpan(q)] : v \in SpanVals}
                  : p \in 1..L} : L \in 1..MaxSpans}

TextBlock(lines) == [type |-> 0, lines |-> lines, bbox |-> Some(<<0, 0, 9, 9>>)]
ImageBlock(bbox) == [type |-> 1, lines |-> << >>, bbox |-> bbox]

BlockVals ==
    {TextBlock(<< <<BaseSpan(1)>> >>),
     TextBlock(<< <<BaseSpan(2)>>, <<BaseSpan(3), BaseSpan(4)>> >>),
     TextBlock(<< >>),
     TextBlock(<< <<[BaseSpan(7) EXCEPT !.text = Some(<<" ", " ">>)],
                    [BaseSpan(8) EXCEPT !.text = Some(<<" ", "b", " ">>)]>> >>),
     ImageBlock(Some(<<1, 2, 4, 6>>)),
     ImageBlock(None),
     [type |-> 1, lines |-> << <<BaseSpan(5)>> >>, bbox |-> Some(<<0, 1, 3, 2>>)],
     [type |-> 2, lines |-> << <<BaseSpan(6)>> >>, bbox |-> Some(<<1, 2, 4, 6>>)]}

BlockSeqs == UNION {[1..L -> BlockVals] : L \in 0..MaxBlocks}

ConfVals ==
    {<< >>, <<"-", "1">>, <<"0">>, <<"9", "5">>, <<" ", "7", " ">>,
     <<"9", "6", ".", "5">>, <<"-", "0", ".", "5">>, <<"x">>, <<"1", "x">>,
     <<"1", ".", "2", ".", "3">>, <<"-">>}

BaseFrag(p) ==
    [text |-> "t", conf |-> <<"9", "0">>, left |-> p, top |-> 7, width |-> 5, height |-> 4]

FragVals ==
    {[BaseFrag(9) EXCEPT !.conf = c] : c \in ConfVals}
    \cup {[BaseFrag(9) EXCEPT !.width = fw, !.height = fh] :
            fw \in 0..MaxOcrSize, fh \in 0..MaxOcrSize}

FragSeqs ==
    UNION {UNION {{[q \in 1..L |-> IF q = p THEN v ELSE BaseFrag(q)] : v \in FragVals}
                  : p \in 1..L} : L \in 1..MaxFrags}

BaseBlocks == <<TextBlock(<< <<BaseSpan(1)>> >>), ImageBlock(Some(<<1, 2, 4, 6>>))>>
BaseOcr == <<BaseFrag(1)>>

Page(w, h, dw, dh, blocks, ocr) ==
    [w |-> w, h |-> h, dw |-> dw, dh |-> dh, blocks |-> blocks, ocr |-> ocr]

\* US Letter page with one span at (100, 100, 200, 120)
LetterPage ==
    Page(612, 792, 0, 0,
         <<TextBlock(<< <<[BaseSpan(1) EXCEPT !.bbox = Some(<<100, 100, 200, 120>>)]>> >>)>>,
         << >>)

\* <<w, h, dw, dh>>
DimVals ==
    {<<0, 0, 0, 0>>, <<0, 3, 1, 0>>, <<3, 0, 0, 1>>, <<3, 4, 0, 0>>,
     <<2, 3, 1, 0>>, <<3, 2, 0, 1>>, <<5, 7, 1, 1>>}

SpanPages == {Page(2, 3, 1, 0, <<TextBlock(<<ss>>)>>, BaseOcr) : ss \in SpanSeqs}
BlockPages == {Page(2, 3, 1, 0, bs, BaseOcr) : bs \in BlockSeqs}
ImagePages == {Page(2, 3, 1, 0, <<ImageBlock(b)>>, BaseOcr) : b \in BboxVals}
DimPages ==
    {LetterPage} \cup {Page(d[1], d[2], d[3], d[4], BaseBlocks, BaseOcr) : d \in DimVals}
OcrPages ==
    {Page(2, 3, 1, 0, BaseBlocks, fs) : fs \in FragSeqs \cup {<< >>}}

SmallPages ==
    {Page(3, 4, 0, 0, BaseBlocks, BaseOcr),
     Page(2, 3, 1, 0, <<ImageBlock(Some(<<0, 0, 1, 1>>))>>, << >>),
     Page(1, 1, 0, 0,
          <<TextBlock(<< <<[BaseSpan(2) EXCEPT !.bbox = Some(<<1, 2>>)], BaseSpan(3)>> >>)>>,
          <<[BaseFrag(2) EXCEPT !.conf = <<"-", "1">>], BaseFrag(3)>>)}

Documents ==
    {<<pg>> : pg \in SpanPages \cup BlockPages \cup ImagePages \cup DimPages \cup OcrPages}
    \cup UNION {[1..N -> SmallPages] : N \in 0..MaxPages}

OriginalNames == {<<"a", "<", "&", ".", "p", "d", "f">>}

\* ------------------------------------------------------------------------
\* State
\* ------------------------------------------------------------------------
VARIABLES
    doc,               \* the pages of the input PDF
    original_name,     \* --original-name
    pc,                \* the statement main / run_pipeline is at
    second,            \* TRUE in the second invocation on the same arguments
    dirs,              \* directories that exist
    assets,            \* page number -> content of assets/page_NNN.png
    files,             \* manifest.json, text-layer.json, index.html
    docOpen,           \* the fitz document handle is open
    opens,             \* number of fitz.open calls of this invocation
    i,                 \* loop index of enumerate(doc)
    pix, sx, sy,
    span_items_pdf, span_items_render, image_boxes, ocr_boxes,
    pages, text_layers,
    stdout,            \* the JSON objects printed by this invocation
    exitcode,          \* process outcome: None while running
    log,               \* the steps this invocation has executed, in order
    prev               \* files and outcome at the end of the first invocation

vars ==
    <<doc, original_name, pc, second, dirs, assets, files, docOpen, opens, i,
      pix, sx, sy, span_items_pdf, span_items_render, image_boxes, ocr_boxes,
      pages, text_layers, stdout, exitcode, log, prev>>

inputs == <<doc, original_name>>
locals == <<pix, sx, sy, span_items_pdf, span_items_render, image_boxes, ocr_boxes>>
results == <<pages, text_layers>>
disk == <<dirs, assets, files>>
process == <<stdout, exitcode>>

NoFiles == [manifest |-> None, textlayer |-> None, index |-> None]

Init ==
    /\ doc \in Documents
    /\ original_name \in OriginalNames
    /\ pc = "main"
    /\ second = FALSE
    /\ dirs = {}
    /\ assets = [k \in 1..Len(doc) |-> None]
    /\ files = NoFiles
    /\ docOpen = FALSE
    /\ opens = 0
    /\ i = 0
    /\ pix = None
    /\ sx = Float(1)
    /\ sy = Float(1)
    /\ span_items_pdf = << >>
    /\ span_items_render = << >>
    /\ image_boxes = << >>
    /\ ocr_boxes = << >>
    /\ pages = << >>
    /\ text_layers = << >>
    /\ stdout = << >>
    /\ exitcode = None
    /\ log = << >>
    /\ prev = None

page_no == i + 1
page == doc[page_no]
image_name == ImageName(page_no)

Step(name, k) == [step |-> name, page |-> k]

\* ------------------------------------------------------------------------
\* run_pipeline
\* ------------------------------------------------------------------------
\* Lines 205-207: mkdir(parents=True, exist_ok=True)
Mkdirs ==
    /\ pc = "main"
    /\ dirs' = dirs \cup {"outdir", "outdir/assets"}
    /\ pc' = "open"
    /\ log' = Append(log, Step("mkdirs", 0))
    /\ UNCHANGED <<inputs, second, assets, files, docOpen, opens, i, locals,
                   results, process, prev>>

\* Lines 212-218: fitz.open succeeds
OpenDoc ==
    /\ pc = "open"
    /\ docOpen' = TRUE
    /\ opens' = opens + 1
    /\ pages' = << >>
    /\ text_layers' = << >>
    /\ i' = 0
    /\ pc' = IF Len(doc) = 0 THEN "close" ELSE "pixmap"
    /\ log' = Append(log, Step("open", 0))
    /\ UNCHANGED <<inputs, second, disk, locals, process, prev>>

\* Line 220
GetPixmap ==
    /\ pc = "pixmap"
    /\ pix' = Some(GetPixmapOf(page))
    /\ pc' = "save"
    /\ log' = Append(log, Step("pixmap", page_no))
    /\ UNCHANGED <<inputs, second, disk, docOpen, opens, i, sx, sy, span_items_pdf,
                   span_items_render, image_boxes, ocr_boxes, results, process, prev>>

\* Lines 221-228
SavePixmap ==
    /\ pc = "save"
    /\ "outdir/assets" \in dirs
    /\ assets' = [assets EXCEPT ![page_no] = pix]
    /\ sx' = ScaleX(page, pix[1])
    /\ sy' = ScaleY(page, pix[1])
    /\ pc' = "text"
    /\ log' = Append(log, Step("save", page_no))
    /\ UNCHANGED <<inputs, second, dirs, files, docOpen, opens, i, pix,
                   span_items_pdf, span_items_render, image_boxes, ocr_boxes,
                   results, process, prev>>

\* Lines 231-257
ExtractSpans ==
    /\ pc = "text"
    /\ span_items_pdf' = SpanItemsPdf(VisitedSpans(page.blocks))
    /\ span_items_render' = SpanItemsRender(VisitedSpans(page.blocks), sx, sy)
    /\ pc' = "images"
    /\ log' = Append(log, Step("text", page_no))
    /\ UNCHANGED <<inputs, second, disk, docOpen, opens, i, pix, sx, sy,
                   image_boxes, ocr_boxes, results, process, prev>>

\* Lines 259-268
ExtractImageBlocks ==
    /\ pc = "images"
    /\ image_boxes' = ImageBoxes(page.blocks, sx, sy)
    /\ pc' = "ocr"
    /\ log' = Append(log, Step("images", page_no))
    /\ UNCHANGED <<inputs, second, disk, docOpen, opens, i, pix, sx, sy,
                   span_items_pdf, span_items_render, ocr_boxes, results, process, prev>>

\* Lines 271-291: Image.open(image_abs) reads the file on disk
RunOcr ==
    /\ pc = "ocr"
    /\ ~ IsNone(assets[page_no])
    /\ ocr_boxes' = OcrBoxes(assets[page_no][1].frags)
    /\ pc' = "append"
    /\ log' = Append(log, Step("ocr", page_no))
    /\ UNCHANGED <<inputs, second, disk, docOpen, opens, i, pix, sx, sy,
                   span_items_pdf, span_items_render, image_boxes, results, process, prev>>

PageRecord ==
    [pageNumber |-> page_no,
     renderWidth |-> pix[1].width,
     renderHeight |-> pix[1].height,
     imagePath |-> ReplaceBackslashes(image_name),
     items |-> span_items_render,
     ocrBoxes |-> ocr_boxes,
     imageBoxes |-> image_boxes]

\* AppendPage leaving the loop after the first page
AppendPage_break ==
    /\ pc = "append"
    /\ pages' = Append(pages, PageRecord)
    /\ text_layers' = Append(text_layers, [page |-> page_no, items |-> span_items_pdf])
    /\ i' = i + 1
    /\ pc' = "close"
    /\ log' = Append(log, Step("append", page_no))
    /\ UNCHANGED <<inputs, second, disk, docOpen, opens, locals, process, prev>>

\* Lines 293-304, and the loop's next iteration or exit
AppendPage ==
    /\ pc = "append"
    /\ pages' = Append(pages, PageRecord)
    /\ text_layers' = Append(text_layers, [page |-> page_no, items |-> span_items_pdf])
    /\ i' = i + 1
    /\ pc' = IF i + 1 < Len(doc) THEN "pixmap" ELSE "close"
    /\ log' = Append(log, Step("append", page_no))
    /\ UNCHANGED <<inputs, second, disk, docOpen, opens, locals, process, prev>>

\* Line 306
CloseDoc ==
    /\ pc = "close"
    /\ docOpen' = FALSE
    /\ pc' = "manifest"
    /\ log' = Append(log, Step("close", 0))
    /\ UNCHANGED <<inputs, second, disk, opens, i, locals, results, process, prev>>

Manifest ==
    [sourceFile |-> original_name, pageCount |-> Len(pages), pages |-> pages]

\* WriteManifest appending to an existing manifest.json
WriteManifest_append ==
    /\ pc = "manifest"
    /\ files' = [files EXCEPT !.manifest =
                    IF IsNone(@) THEN Some(Manifest) ELSE Some(<<@[1], Manifest>>)]
    /\ pc' = "textlayer"
    /\ log' = Append(log, Step("manifest", 0))
    /\ UNCHANGED <<inputs, second, dirs, assets, docOpen, opens, i, locals,
                   results, process, prev>>

\* Lines 308-311
WriteManifest ==
    /\ pc = "manifest"
    /\ files' = [files EXCEPT !.manifest = Some(Manifest)]
    /\ pc' = "textlayer"
    /\ log' = Append(log, Step("manifest", 0))
    /\ UNCHANGED <<inputs, second, dirs, assets, docOpen, opens, i, locals,
                   results, process, prev>>

\* Lines 312-314
WriteTextLayer ==
    /\ pc = "textlayer"
    /\ files' = [files EXCEPT !.textlayer = Some(text_layers)]
    /\ pc' = "html"
    /\ log' = Append(log, Step("textlayer", 0))
    /\ UNCHANGED <<inputs, second, dirs, assets, docOpen, opens, i, locals,
                   results, process, prev>>

\* Lines 24-201 and 315
write_template_html ==
    /\ pc = "html"
    /\ files' = [files EXCEPT !.index = Some(HtmlEscape(original_name))]
    /\ pc' = "print"
    /\ log' = Append(log, Step("html", 0))
    /\ UNCHANGED <<inputs, second, dirs, assets, docOpen, opens, i, locals,
                   results, process, prev>>

\* ------------------------------------------------------------------------
\* main
\* ------------------------------------------------------------------------
\* Lines 316 and 334
PrintResult ==
    /\ pc = "print"
    /\ stdout' = Append(stdout, [ok |-> TRUE, pages |-> Len(pages), preview |-> "index.html"])
    /\ exitcode' = Some(0)
    /\ pc' = "done"
    /\ log' = Append(log, Step("print", 0))
    /\ UNCHANGED <<inputs, second, disk, docOpen, opens, i, locals, results, prev>>

\* The calls into the engines that can raise: fitz.open, page.get_pixmap,
\* pix.save, the two page.get_text calls, Image.open / image_to_data.
EngineCalls == {"open", "pixmap", "save", "text", "images", "ocr"}

EngineError ==
    /\ pc \in EngineCalls
    /\ pc' = "except"
    /\ log' = Append(log, Step("raise", IF pc = "open" THEN 0 ELSE page_no))
    /\ UNCHANGED <<inputs, second, disk, docOpen, opens, i, locals, results,
                   process, prev>>

\* PrintError without the re-raise
PrintError_swallow ==
    /\ pc = "except"
    /\ stdout' = Append(stdout, [ok |-> FALSE, error |-> "exc", traceback |-> "tb"])
    /\ exitcode' = Some(0)
    /\ pc' = "failed"
    /\ UNCHANGED <<inputs, second, disk, docOpen, opens, i, locals, results, log, prev>>

\* Lines 335-342: print the failure object, then re-raise
PrintError ==
    /\ pc = "except"
    /\ stdout' = Append(stdout, [ok |-> FALSE, error |-> "exc", traceback |-> "tb"])
    /\ exitcode' = Some(1)
    /\ pc' = "failed"
    /\ UNCHANGED <<inputs, second, disk, docOpen, opens, i, locals, results, log, prev>>

\* The caller invokes the script again with the same arguments: a new
\* process, over the output directory the first one left.
RunAgain ==
    /\ pc \in {"done", "failed"}
    /\ ~ second
    /\ second' = TRUE
    /\ prev' = Some([files |-> files, assets |-> assets, ok |-> pc = "done"])
    /\ pc' = "main"
    /\ docOpen' = FALSE
    /\ opens' = 0
    /\ stdout' = << >>
    /\ exitcode' = None
    /\ log' = << >>
    /\ UNCHANGED <<inputs, disk, i, locals, results>>

Next ==
    \/ Mkdirs
    \/ OpenDoc
    \/ GetPixmap
    \/ SavePixmap
    \/ ExtractSpans
    \/ ExtractImageBlocks
    \/ RunOcr
    \/ AppendPage
    \/ CloseDoc
    \/ WriteManifest
    \/ WriteTextLayer
    \/ write_template_html
    \/ PrintResult
    \/ EngineError
    \/ PrintError
    \/ RunAgain

Spec == Init /\ [][Next]_vars

\* ========================================================================
\* Properties
\* ========================================================================
Done == pc = "done"
Ended == pc \in {"done", "failed"}
Recorded == 1..Len(pages)

\* The spans of the text-type blocks of a content tree, in tree order.
TreeSpans(blocks) ==
    Concat(Concat([b \in 1..Len(blocks) |->
                     IF blocks[b].type = 0 THEN blocks[b].lines ELSE << >>]))

HasFourCoords(bbox) == Len(bbox) = 1 /\ Len(bbox[1]) = 4
NonBlank(text) ==
    /\ Len(text) = 1
    /\ \E c \in 1..Len(text[1]) : text[1][c] \notin {" ", "\t", "\n"}

\* v is the float c * R / D (c when D = 0)
IsScaled(v, c, R, D) ==
    /\ v.d > 0
    /\ IF D > 0 THEN v.n * D = c * R * v.d ELSE v.n = c * v.d

\* v is the float max(0, c1 * R / D - c0 * R / D)
IsScaledExtent(v, c0, c1, R, D) ==
    LET dn == (c1 - c0) * (IF D > 0 THEN R ELSE 1)
        dd == IF D > 0 THEN D ELSE 1
    IN  /\ v.d > 0
        /\ v.n >= 0
        /\ IF dn > 0 THEN v.n * dd = dn * v.d ELSE v.n = 0

IsScaledBox(box, bbox, rec, pg) ==
    /\ IsScaled(box.x, bbox[1], rec.renderWidth, pg.w)
    /\ IsScaled(box.y, bbox[2], rec.renderHeight, pg.h)
    /\ IsScaledExtent(box.w, bbox[1], bbox[3], rec.renderWidth, pg.w)
    /\ IsScaledExtent(box.h, bbox[2], bbox[4], rec.renderHeight, pg.h)

FourCoordImages(pg) ==
    SelectSeq(pg.blocks, LAMBDA b : b.type = 1 /\ HasFourCoords(b.bbox))

\* The spans that get a manifest item: trimmed text not empty, and a bbox
\* of four components or none at all (which the code replaces by zeros).
NoBbox(bbox) == Len(bbox) = 0 \/ Len(bbox[1]) = 0
EmittedSpans(pg) ==
    SelectSeq(TreeSpans(pg.blocks),
              LAMBDA sp : NonBlank(sp.text) /\ (HasFourCoords(sp.bbox) \/ NoBbox(sp.bbox)))

\* C1: on every recorded page, every text span and image block with a PDF
\* bbox (x0, y0, x1, y1) is in the manifest with x = x0*sx, y = y0*sy,
\* w = max(0, x1*sx - x0*sx), h = max(0, y1*sy - y0*sy), where sx = Rw/W if
\* W > 0 else 1 and sy = Rh/H if H > 0 else 1; w and h are never negative;
\* at zoom 2 on a 612x792 page (100,100,200,120) maps to corners
\* (200,200,400,240).
C1_ScaledBoxes ==
    \A k \in Recorded :
        LET rec == pages[k]
            pg == doc[k]
            spans == EmittedSpans(pg)
            images == FourCoordImages(pg)
        IN  /\ \A j \in 1..Len(rec.items) : rec.items[j].w.n >= 0 /\ rec.items[j].h.n >= 0
            /\ \A j \in 1..Len(rec.imageBoxes) :
                   rec.imageBoxes[j].w.n >= 0 /\ rec.imageBoxes[j].h.n >= 0
            /\ Len(rec.items) = Len(spans)
            /\ \A j \in 1..Len(spans) :
                   HasFourCoords(spans[j].bbox) =>
                       IsScaledBox(rec.items[j], spans[j].bbox[1], rec, pg)
            /\ Len(rec.imageBoxes) = Len(images)
            /\ \A j \in 1..Len(images) :
                   IsScaledBox(rec.imageBoxes[j], images[j].bbox[1], rec, pg)
            /\ (pg = LetterPage) =>
                   /\ rec.renderWidth = 1224 /\ rec.renderHeight = 1584
                   /\ rec.items[1].x = Float(200) /\ rec.items[1].y = Float(200)
                   /\ rec.items[1].w = Float(400 - 200)
                   /\ rec.items[1].h = Float(240 - 200)

\* C1 witness: a finished run recorded a span whose bbox has x1 < x0 on a
\* page whose horizontal scale factor is not an integer.
C1_Witness ==
    /\ Done
    /\ \E k \in Recorded :
          /\ doc[k].w > 0
          /\ pages[k].renderWidth % doc[k].w # 0
          /\ \E j \in 1..Len(EmittedSpans(doc[k])) :
                 LET sp == EmittedSpans(doc[k])[j]
                 IN  /\ HasFourCoords(sp.bbox)
                     /\ sp.bbox[1][3] < sp.bbox[1][1]
                     /\ sp.bbox[1][2] < sp.bbox[1][4]
                     /\ pages[k].items[j].w = Float(0)
                     /\ FLess(Float(0), pages[k].items[j].h)

\* ------------------------------------------------------------------------
\* The number each confidence spelling denotes (None: not a number).
ConfNumber(c) ==
    CASE c = <<"0">> -> Some([n |-> 0, d |-> 1])
      [] c = <<"9", "5">> -> Some([n |-> 95, d |-> 1])
      [] c = <<"9", "0">> -> Some([n |-> 90, d |-> 1])
      [] c = <<" ", "7", " ">> -> Some([n |-> 7, d |-> 1])
      [] c = <<"9", "6", ".", "5">> -> Some([n |-> 193, d |-> 2])
      [] c = <<"-", "1">> -> Some([n |-> 0 - 1, d |-> 1])
      [] c = <<"-", "0", ".", "5">> -> Some([n |-> 0 - 1, d |-> 2])
      [] OTHER -> None

KeptFragment(fr) ==
    /\ ~ IsNone(ConfNumber(fr.conf))
    /\ ConfNumber(fr.conf)[1].n >= 0
    /\ fr.width > 1
    /\ fr.height > 1

KeptFragments(pg) == SelectSeq(pg.ocr, KeptFragment)

\* C2: on every recorded page, ocrBoxes is the in-order subsequence of the
\* OCR fragments whose confidence parses to a number >= 0 and whose width
\* and height exceed 1, each with the engine's left, top, width, height
\* unscaled; no box with conf < 0, w <= 1 or h <= 1 is in the output.
C2_OcrBoxesFiltered ==
    \A k \in Recorded :
        LET boxes == pages[k].ocrBoxes
            kept == KeptFragments(doc[k])
        IN  /\ Len(boxes) = Len(kept)
            /\ \A j \in 1..Len(kept) :
                   boxes[j] = [x |-> [n |-> kept[j].left, d |-> 1],
                               y |-> [n |-> kept[j].top, d |-> 1],
                               w |-> [n |-> kept[j].width, d |-> 1],
                               h |-> [n |-> kept[j].height, d |-> 1],
                               conf |-> ConfNumber(kept[j].conf)[1]]
            /\ \A j \in 1..Len(boxes) :
                   /\ boxes[j].conf.n >= 0
                   /\ boxes[j].w.n > boxes[j].w.d
                   /\ boxes[j].h.n > boxes[j].h.d

\* C2 witness: a run succeeded on a page (scale factor not 1) whose OCR
\* output has a fragment with an unparseable confidence before a kept one.
C2_Witness ==
    /\ Done
    /\ \E k \in Recorded :
          /\ pages[k].renderWidth # doc[k].w
          /\ Len(pages[k].ocrBoxes) >= 1
          /\ \E a, b \in 1..Len(doc[k].ocr) :
                 /\ a < b
                 /\ IsNone(ConfNumber(doc[k].ocr[a].conf))
                 /\ KeptFragment(doc[k].ocr[b])

\* ------------------------------------------------------------------------
SameSpan(item, tl, sp) ==
    /\ item.size = [n |-> IF IsNone(sp.size) THEN 0 ELSE sp.size[1], d |-> 1]
    /\ tl.size = item.size
    /\ item.font = (IF IsNone(sp.font) THEN "" ELSE sp.font[1])
    /\ tl.font = item.font

\* C3 as claimed: a span whose bbox does not have exactly 4 components
\* (3 elements, empty or absent) is in neither the manifest items nor the
\* text layer, and every other span with non-empty trimmed text and a
\* 4-component bbox still appears, in order.
C3_Original ==
    \A k \in Recorded :
        LET four == SelectSeq(TreeSpans(doc[k].blocks),
                              LAMBDA sp : NonBlank(sp.text) /\ HasFourCoords(sp.bbox))
        IN  /\ Len(pages[k].items) = Len(four)
            /\ Len(text_layers[k].items) = Len(four)
            /\ \A j \in 1..Len(four) :
                   SameSpan(pages[k].items[j], text_layers[k].items[j], four[j])

\* C3 amended: a span whose bbox is present and non-empty but does not have
\* exactly 4 components is in neither the manifest items nor the text layer;
\* a span with an absent or empty bbox is treated as having bbox (0,0,0,0);
\* all spans with non-empty trimmed text and a 4-component (or absent or
\* empty) bbox appear in the original order.
C3_MalformedBboxSkipped ==
    \A k \in Recorded :
        LET em == EmittedSpans(doc[k])
        IN  /\ Len(pages[k].items) = Len(em)
            /\ Len(text_layers[k].items) = Len(em)
            /\ \A j \in 1..Len(em) :
                   /\ SameSpan(pages[k].items[j], text_layers[k].items[j], em[j])
                   /\ NoBbox(em[j].bbox) =>
                          /\ text_layers[k].items[j].bbox
                               = <<Float(0), Float(0), Float(0), Float(0)>>
                          /\ pages[k].items[j].x = Float(0)
                          /\ pages[k].items[j].w = Float(0)

MalformedBbox(sp) == Len(sp.bbox) = 1 /\ Len(sp.bbox[1]) \notin {0, 4}

\* C3 witness: a run succeeded on a page where a span with a 3-component
\* bbox precedes a well-formed span, and the page has an item.
C3_Witness ==
    /\ Done
    /\ \E k \in Recorded :
          LET sps == TreeSpans(doc[k].blocks)
          IN  /\ Len(pages[k].items) >= 1
              /\ \E a, b \in 1..Len(sps) :
                     /\ a < b
                     /\ NonBlank(sps[a].text) /\ MalformedBbox(sps[a])
                     /\ Len(sps[a].bbox[1]) = 3
                     /\ NonBlank(sps[b].text) /\ HasFourCoords(sps[b].bbox)

\* ------------------------------------------------------------------------
\* The decimal digit of n at the place of the given power of ten
Place(n, power) == DigitChar((n \div power) % 10)

\* C5: after a successful run over N pages, manifest.pageCount =
\* len(manifest.pages) = N, the i-th page record and text-layer entry have
\* page number i and imagePath assets/page_{i as 3 digits}.png, and the
\* success object has pages = N.
C5_PageCount ==
    Done =>
        /\ Len(files.manifest) = 1 /\ Len(files.textlayer) = 1
        /\ LET m == files.manifest[1]
               tl == files.textlayer[1]
               N == Len(doc)
           IN  /\ m.pageCount = N
               /\ Len(m.pages) = N
               /\ Len(tl) = N
               /\ \A k \in 1..N :
                      /\ m.pages[k].pageNumber = k
                      /\ tl[k].page = k
                      /\ m.pages[k].imagePath
                           = <<"assets/page_", Place(k, 100), Place(k, 10), Place(k, 1), ".png">>
               /\ stdout = <<[ok |-> TRUE, pages |-> N, preview |-> "index.html"]>>

\* C5 witness: a successful run over a document of more than one page.
C5_Witness == Done /\ Len(doc) >= 2 /\ Len(files.manifest) = 1

\* ------------------------------------------------------------------------
\* C6: on every recorded page the text layer has as many items as the
\* vector extraction found spans and as the manifest page has items; the
\* i-th entries agree in text, font and size; each text-layer bbox is the
\* span's raw PDF-space (x0, y0, x1, y1), whatever the scale factors.
C6_TextLayerUnscaled ==
    \A k \in Recorded :
        LET em == EmittedSpans(doc[k])
            tl == text_layers[k].items
            it == pages[k].items
        IN  /\ text_layers[k].page = pages[k].pageNumber
            /\ Len(tl) = Len(em)
            /\ Len(tl) = Len(it)
            /\ \A j \in 1..Len(tl) :
                   /\ tl[j].text = it[j].text
                   /\ tl[j].font = it[j].font
                   /\ tl[j].size = it[j].size
                   /\ HasFourCoords(em[j].bbox) =>
                          tl[j].bbox = [c \in 1..4 |-> [n |-> em[j].bbox[1][c], d |-> 1]]

\* C6 witness: a run succeeded on a page with two items whose raster is
\* not the size of the page, so scaled and raw boxes differ.
C6_Witness ==
    /\ Done
    /\ \E k \in Recorded :
          /\ Len(text_layers[k].items) >= 2
          /\ pages[k].renderWidth # doc[k].w
          /\ pages[k].items[2].x # text_layers[k].items[2].bbox[1]

\* ------------------------------------------------------------------------
\* text is raw without its leading and trailing whitespace
IsTrimOf(text, raw) ==
    /\ Len(text) > 0
    /\ ~ IsSpace(text[1])
    /\ ~ IsSpace(text[Len(text)])
    /\ \E a \in 0..Len(raw) :
          /\ a + Len(text) <= Len(raw)
          /\ SubSeq(raw, a + 1, a + Len(text)) = text
          /\ \A c \in 1..a : IsSpace(raw[c])
          /\ \A c \in (a + Len(text) + 1)..Len(raw) : IsSpace(raw[c])

AllSpans(blocks) == Concat(Concat([b \in 1..Len(blocks) |-> blocks[b].lines]))

\* C7: every manifest and text-layer item has non-empty text equal to the
\* trimmed span text; spans with absent, empty or whitespace-only text never
\* appear; only text-type blocks give items and only image-type blocks give
\* imageBoxes; a page with no text span and one image block has no items and
\* one imageBoxes entry.
C7_NonEmptyTrimmedText ==
    \A k \in Recorded :
        LET em == EmittedSpans(doc[k])
            it == pages[k].items
            tl == text_layers[k].items
            blocks == doc[k].blocks
        IN  /\ Len(it) = Len(em)
            /\ Len(tl) = Len(em)
            /\ \A j \in 1..Len(em) :
                   /\ IsTrimOf(it[j].text, em[j].text[1])
                   /\ tl[j].text = it[j].text
            /\ Len(pages[k].imageBoxes)
                 = Cardinality({b \in 1..Len(blocks) :
                                  blocks[b].type = 1 /\ HasFourCoords(blocks[b].bbox)})
            /\ (/\ Len(TreeSpans(blocks)) = 0
                /\ Cardinality({b \in 1..Len(blocks) : blocks[b].type = 1}) = 1
                /\ \A b \in 1..Len(blocks) :
                       blocks[b].type = 1 => HasFourCoords(blocks[b].bbox))
               => Len(it) = 0 /\ Len(pages[k].imageBoxes) = 1

\* C7 witness: a run succeeded on a page where a whitespace-only span and a
\* span with surrounding whitespace sit in a text block, next to an image
\* block that holds spans of its own.
C7_Witness ==
    /\ Done
    /\ \E k \in Recorded :
          LET sps == TreeSpans(doc[k].blocks)
          IN  /\ Len(pages[k].items) >= 1
              /\ Len(pages[k].imageBoxes) = 1
              /\ Len(AllSpans(doc[k].blocks)) > Len(sps)
              /\ \E a, b \in 1..Len(sps) :
                     /\ Len(sps[a].text) = 1 /\ Len(sps[a].text[1]) > 0
                     /\ ~ NonBlank(sps[a].text)
                     /\ NonBlank(sps[b].text)
                     /\ IsSpace(sps[b].text[1][1])

\* ------------------------------------------------------------------------
\* The output directory as this invocation found it
StartFiles == IF second THEN prev[1].files ELSE NoFiles
StartAsset(j) == IF second THEN prev[1].assets[j] ELSE None
LastStep == log[Len(log)]

\* C4: when fitz.open, a rasterization, a content-tree extraction or an OCR
\* call raises on page k, no step of a later page is executed, this run
\* writes none of manifest.json, text-layer.json and index.html, files
\* written before stay as they are, exactly one object with ok = false is
\* printed before the failure is signalled, and no ok = true object.
C4_FailureAborts ==
    pc \in {"except", "failed"} =>
        /\ LastStep.step = "raise"
        /\ \A e \in 1..Len(log) :
               /\ log[e].page <= LastStep.page
               /\ log[e].step \notin {"manifest", "textlayer", "html", "print"}
        /\ Len(pages) < Len(doc) \/ LastStep.page = 0
        /\ files = StartFiles
        /\ \A j \in 1..Len(doc) :
               /\ j > LastStep.page => assets[j] = StartAsset(j)
               /\ j < LastStep.page => assets[j] = Some(GetPixmapOf(doc[j]))
        /\ \A e \in 1..Len(stdout) : ~ stdout[e].ok
        /\ pc = "except" => stdout = << >> /\ exitcode = None
        /\ pc = "failed" => Len(stdout) = 1 /\ exitcode = Some(1)

\* C4 witness: the OCR call raised on page 1 of a two-page document, in a
\* run over the output directory of an earlier successful run.
C4_Witness ==
    /\ pc = "failed"
    /\ second
    /\ prev[1].ok
    /\ Len(doc) = 2
    /\ LastStep = Step("raise", 1)
    /\ log[Len(log) - 1] = Step("images", 1)

\* ------------------------------------------------------------------------
\* C8: a second run with the same input, display name and output directory
\* leaves manifest.json and text-layer.json with the content they had after
\* the first (successful) run.
C8_Idempotent ==
    (second /\ Ended /\ prev[1].ok) =>
        /\ Len(files.manifest) = 1
        /\ Len(files.textlayer) = 1
        /\ files.manifest = prev[1].files.manifest
        /\ files.textlayer = prev[1].files.textlayer

\* C8 witness: both runs succeeded on a document whose pages have items,
\* OCR boxes and image boxes.
C8_Witness ==
    /\ second
    /\ Done
    /\ prev[1].ok
    /\ Len(doc) >= 1
    /\ \A k \in Recorded :
           /\ Len(pages[k].items) >= 1
           /\ Len(pages[k].ocrBoxes) >= 1
           /\ Len(pages[k].imageBoxes) >= 1

\* ------------------------------------------------------------------------
StepsNamed(name) == {e \in 1..Len(log) : log[e].step = name}

\* C9 as claimed: the document is opened once per run, closed after the
\* last page is processed and before manifest.json is written, and in every
\* run that opened it, successful or failed, it is closed when the run ends.
C9_DocumentClosed ==
    /\ opens <= 1
    /\ \A m \in StepsNamed("manifest") :
           \E c \in StepsNamed("close") :
               /\ c < m
               /\ \A a \in StepsNamed("append") : a < c
    /\ (Ended /\ opens >= 1) => ~ docOpen

\* ------------------------------------------------------------------------
PageSteps(k) ==
    <<Step("pixmap", k), Step("save", k), Step("text", k), Step("images", k),
      Step("ocr", k), Step("append", k)>>

ExpectedSteps ==
    Concat([k \in 1..Len(doc) |-> PageSteps(k)])
    \o <<Step("manifest", 0), Step("textlayer", 0), Step("html", 0)>>

RunSteps ==
    SelectSeq(log, LAMBDA e : e.step \notin {"mkdirs", "open", "close", "print", "raise"})

\* C10: the steps of a run are, page after page, rasterize and write the
\* page image, extract spans, extract image blocks, OCR (on the image file
\* written in this iteration), append the record; then manifest.json,
\* text-layer.json and index.html, only after the last record is appended.
C10_SequentialPages ==
    /\ Len(RunSteps) <= Len(ExpectedSteps)
    /\ RunSteps = SubSeq(ExpectedSteps, 1, Len(RunSteps))
    /\ Done => RunSteps = ExpectedSteps
    /\ (Len(log) > 0 /\ LastStep.step = "ocr") =>
           /\ assets[LastStep.page] = Some(GetPixmapOf(doc[LastStep.page]))
           /\ ocr_boxes = OcrBoxes(assets[LastStep.page][1].frags)
           /\ \E e \in StepsNamed("save") : log[e].page = LastStep.page
    /\ \A m \in StepsNamed("manifest") : Cardinality(StepsNamed("append")) = Len(doc)

\* C10 witness: a run over a two-page document has written index.html.
C10_Witness ==
    /\ Len(doc) = 2
    /\ Len(log) > 0
    /\ LastStep.step = "html"
    /\ Len(pages) = 2

====
